---- MODULE Spec2Model ----
(***************************************************************************)
(* The ESLint rule promise-constructor-exactly-one-callback: the path      *)
(* enumerator (analyzeBlock and its helpers), the sentinel counter         *)
(* (countCallbacksInStatement) and the classifier (analyzeExecutionPaths), *)
(* applied by the NewExpression visitor to `new Promise(executor)`.        *)
(* The rule promise-constructor-callbacks, which the plugin exports, is    *)
(* modelled next to it as a second visitor of the same node, and so are    *)
(* the first definition in that rule's file, which the second overwrites,  *)
(* and the variant of the exactly-one rule kept under src/rules, whose     *)
(* analyzeBlock takes the statement list alone.                            *)
(*                                                                         *)
(* An AST node is a record with its ESTree `type`; every child slot holds  *)
(* the sequence of the nodes in it: <<>> for null, <<n>> for one node, the *)
(* array for an array.  Statement-level nodes carry `range`, the position  *)
(* of the node in the source (its path from the executor body), which is   *)
(* what tells two nodes of the same text apart.                            *)
(***************************************************************************)
EXTENDS Integers, Sequences, FiniteSets, TLC

VARIABLES node, pc, paths, reports

vars == <<node, pc, paths, reports>>

(***************************************************************************)
(* AST constructors                                                        *)
(***************************************************************************)
Identifier(name) == [type |-> "Identifier", name |-> name]

Literal == [type |-> "Literal"]

CallExpression(callee, arguments) ==
    [type |-> "CallExpression", callee |-> <<callee>>, arguments |-> arguments]

Call(name) == CallExpression(Identifier(name), <<Literal>>)

\* A destructuring parameter: a node without `name`.
ObjectPattern == [type |-> "ObjectPattern"]

MemberExpression(object, property) ==
    [type |-> "MemberExpression", object |-> <<object>>, property |-> <<property>>]

ExpressionStatement(r, e) ==
    [type |-> "ExpressionStatement", range |-> r, expression |-> <<e>>]

ReturnStatement(r, argument) ==
    [type |-> "ReturnStatement", range |-> r, argument |-> argument]

ThrowStatement(r) ==
    [type |-> "ThrowStatement", range |-> r, argument |-> <<Literal>>]

BreakStatement(r) == [type |-> "BreakStatement", range |-> r]

BlockStatement(r, body) == [type |-> "BlockStatement", range |-> r, body |-> body]

IfStatement(r, consequent, alternate) ==
    [type |-> "IfStatement", range |-> r, test |-> <<Identifier("condition")>>,
     consequent |-> <<consequent>>, alternate |-> alternate]

CatchClause(r, body) == [type |-> "CatchClause", range |-> r, body |-> <<body>>]

TryStatement(r, block, handler, finalizer) ==
    [type |-> "TryStatement", range |-> r, block |-> <<block>>,
     handler |-> handler, finalizer |-> finalizer]

SwitchCase(r, test, consequent) ==
    [type |-> "SwitchCase", range |-> r, test |-> test, consequent |-> consequent]

SwitchStatement(r, cases) ==
    [type |-> "SwitchStatement", range |-> r,
     discriminant |-> <<Identifier("status")>>, cases |-> cases]

LoopStatement(type, r, body) == [type |-> type, range |-> r, body |-> <<body>>]

ArrowFunctionExpression(params, body) ==
    [type |-> "ArrowFunctionExpression", params |-> params, body |-> <<body>>]

NewExpression(callee, arguments) ==
    [type |-> "NewExpression", callee |-> <<callee>>, arguments |-> arguments]

\* The child slots of a node, the keys traverse() descends into.
ChildKeys ==
    <<"expression", "callee", "arguments", "argument", "body", "test",
      "consequent", "alternate", "block", "handler", "finalizer",
      "discriminant", "cases", "params", "object", "property">>

(***************************************************************************)
(* The rule                                                                *)
(***************************************************************************)
RECURSIVE analyzeBlockFrom(_, _, _)
RECURSIVE continuingPaths(_, _)
RECURSIVE continuingPathsAll(_, _)
RECURSIVE continuingPathsKeepRaw(_, _)
RECURSIVE finallyJoin(_, _)
RECURSIVE analyzeSwitchCases(_, _)
RECURSIVE traverse(_, _, _)
RECURSIVE traverseAll(_, _, _)
RECURSIVE traverseKeys(_, _, _, _)

\* isPromiseConstructor without the test of the callee's name
isPromiseConstructorAnyName(n) ==
    /\ n.type = "NewExpression"
    /\ n.callee[1].type = "Identifier"

isPromiseConstructor(n) ==
    /\ n.type = "NewExpression"
    /\ n.callee[1].type = "Identifier"
    /\ n.callee[1].name = "Promise"

\* <<>> stands for null.
getExecutorFunction(n) ==
    IF Len(n.arguments) > 0
       /\ n.arguments[1].type \in {"ArrowFunctionExpression", "FunctionExpression"}
    THEN <<n.arguments[1]>>
    ELSE <<>>

\* ParamName that gives a parameter without a name the type of its node
ParamNameOrType(p) == IF "name" \in DOMAIN p THEN <<p.name>> ELSE <<p.type>>

\* <<>> stands for null; a parameter that is no identifier has no name.
ParamName(p) == IF "name" \in DOMAIN p THEN <<p.name>> ELSE <<>>

getParameterNames(executorFn) ==
    IF Len(executorFn.params) < 2
    THEN <<>>
    ELSE <<[resolve |-> ParamName(executorFn.params[1]),
            reject  |-> ParamName(executorFn.params[2])]>>

\* continuingPaths without the test of path.terminated: every sub-path continues
continuingPathsAll(subPaths, remainingStatements) ==
    IF subPaths = <<>>
    THEN <<>>
    ELSE LET path == Head(subPaths)
             continued ==
                 IF Len(remainingStatements) > 0
                 THEN analyzeBlockFrom(remainingStatements, 1, path.statements)
                 ELSE <<path>>
         IN  continued \o continuingPathsAll(Tail(subPaths), remainingStatements)

\* As continuingPaths, but the raw sub-path is kept next to its continuations.
continuingPathsKeepRaw(subPaths, remainingStatements) ==
    IF subPaths = <<>>
    THEN <<>>
    ELSE LET path == Head(subPaths)
             continued ==
                 IF path.terminated = "no" /\ Len(remainingStatements) > 0
                 THEN <<path>> \o analyzeBlockFrom(remainingStatements, 1, path.statements)
                 ELSE <<path>>
         IN  continued \o continuingPathsKeepRaw(Tail(subPaths), remainingStatements)

\* for (const path of ...) { if (path.terminated === 'no' && remaining.length > 0) ... }
continuingPaths(subPaths, remainingStatements) ==
    IF subPaths = <<>>
    THEN <<>>
    ELSE LET path == Head(subPaths)
             continued ==
                 IF path.terminated = "no" /\ Len(remainingStatements) > 0
                 THEN analyzeBlockFrom(remainingStatements, 1, path.statements)
                 ELSE <<path>>
         IN  continued \o continuingPaths(Tail(subPaths), remainingStatements)

analyzeBlock(statements, currentPath) == analyzeBlockFrom(statements, 1, currentPath)

blockStatements(n) == IF n.type = "BlockStatement" THEN n.body ELSE <<n>>

\* analyzeIfStatement with the empty else path anchored at the consequent
analyzeIfStatementAnchor(ifStmt, currentPath) ==
    LET thenPaths == analyzeBlock(blockStatements(ifStmt.consequent[1]), currentPath)
        elsePaths ==
            IF ifStmt.alternate # <<>>
            THEN analyzeBlock(blockStatements(ifStmt.alternate[1]), currentPath)
            ELSE <<[statements |-> currentPath, endNode |-> ifStmt.consequent[1],
                    terminated |-> "no", continuesAfterIf |-> TRUE]>>
    IN  thenPaths \o elsePaths

\* analyzeIfStatement that takes every if for one without an else
analyzeIfStatementNoElse(ifStmt, currentPath) ==
    LET thenPaths == analyzeBlock(blockStatements(ifStmt.consequent[1]), currentPath)
        elsePaths ==
            <<[statements |-> currentPath, endNode |-> ifStmt,
               terminated |-> "no", continuesAfterIf |-> TRUE]>>
    IN  thenPaths \o elsePaths

analyzeIfStatement(ifStmt, currentPath) ==
    LET thenPaths == analyzeBlock(blockStatements(ifStmt.consequent[1]), currentPath)
        elsePaths ==
            IF ifStmt.alternate # <<>>
            THEN analyzeBlock(blockStatements(ifStmt.alternate[1]), currentPath)
            ELSE <<[statements |-> currentPath, endNode |-> ifStmt,
                    terminated |-> "no", continuesAfterIf |-> TRUE]>>
    IN  thenPaths \o elsePaths

\* for (const tryPath of tryPaths): both arms of the test run the finally block
finallyJoin(tryPaths, finallyStatements) ==
    IF tryPaths = <<>>
    THEN <<>>
    ELSE analyzeBlock(finallyStatements, Head(tryPaths).statements)
         \o finallyJoin(Tail(tryPaths), finallyStatements)

\* analyzeTryStatement that pushes the catch paths and then joins them with the
\* finally block as well, so that every catch path is there twice
analyzeTryStatementCatchTwice(tryStmt, currentPath) ==
    LET tryPaths == analyzeBlock(tryStmt.block[1].body, currentPath)
        catchPaths ==
            IF tryStmt.handler # <<>>
            THEN analyzeBlock(tryStmt.handler[1].body[1].body, currentPath)
            ELSE <<>>
    IN  IF tryStmt.finalizer # <<>>
        THEN catchPaths \o finallyJoin(tryPaths \o catchPaths, tryStmt.finalizer[1].body)
        ELSE catchPaths \o tryPaths

analyzeTryStatement(tryStmt, currentPath) ==
    LET tryPaths == analyzeBlock(tryStmt.block[1].body, currentPath)
        catchPaths ==
            IF tryStmt.handler # <<>>
            THEN analyzeBlock(tryStmt.handler[1].body[1].body, currentPath)
            ELSE <<>>
    IN  IF tryStmt.finalizer # <<>>
        THEN catchPaths \o finallyJoin(tryPaths, tryStmt.finalizer[1].body)
        ELSE catchPaths \o tryPaths

analyzeSwitchCases(cases, currentPath) ==
    IF cases = <<>>
    THEN <<>>
    ELSE LET caseNode == Head(cases)
             casePaths ==
                 IF Len(caseNode.consequent) > 0
                 THEN analyzeBlock(caseNode.consequent, currentPath)
                 ELSE <<[statements |-> currentPath, endNode |-> caseNode,
                         terminated |-> "no", isEmpty |-> TRUE]>>
         IN  casePaths \o analyzeSwitchCases(Tail(cases), currentPath)

\* analyzeSwitchStatement that adds the implicit default path to every switch
analyzeSwitchStatementImplicit(switchStmt, currentPath) ==
    analyzeSwitchCases(switchStmt.cases, currentPath)
    \o <<[statements |-> currentPath, endNode |-> switchStmt,
          terminated |-> "no", isImplicitDefault |-> TRUE]>>

analyzeSwitchStatement(switchStmt, currentPath) ==
    LET cases == switchStmt.cases
        hasDefault == \E i \in 1..Len(cases) : cases[i].test = <<>>
    IN  analyzeSwitchCases(cases, currentPath)
        \o (IF ~hasDefault
            THEN <<[statements |-> currentPath, endNode |-> switchStmt,
                    terminated |-> "no", isImplicitDefault |-> TRUE]>>
            ELSE <<>>)

\* analyzeLoopStatement without the path of the loop that does not run
analyzeLoopStatementNoSkip(loopStmt, currentPath) ==
    analyzeBlock(blockStatements(loopStmt.body[1]), currentPath)

\* analyzeLoopStatement whose skip path keeps the loop statement itself
analyzeLoopStatementKeepsLoop(loopStmt, currentPath) ==
    analyzeBlock(blockStatements(loopStmt.body[1]), currentPath)
    \o <<[statements |-> Append(currentPath, loopStmt), endNode |-> loopStmt,
          terminated |-> "no", isLoopSkip |-> TRUE]>>

analyzeLoopStatement(loopStmt, currentPath) ==
    analyzeBlock(blockStatements(loopStmt.body[1]), currentPath)
    \o <<[statements |-> currentPath, endNode |-> loopStmt,
          terminated |-> "no", isLoopSkip |-> TRUE]>>

\* analyzeBlockFrom that takes a return for a plain statement
analyzeBlockFromPastReturn(statements, i, workingPath) ==
    IF i > Len(statements)
    THEN IF Len(workingPath) > 0
         THEN <<[statements |-> workingPath,
                 endNode |-> workingPath[Len(workingPath)],
                 terminated |-> "no"]>>
         ELSE <<>>
    ELSE LET stmt == statements[i]
             remainingStatements == SubSeq(statements, i + 1, Len(statements))
         IN  CASE stmt.type = "IfStatement" ->
                    continuingPaths(analyzeIfStatement(stmt, workingPath),
                                    remainingStatements)
               [] stmt.type = "TryStatement" ->
                    continuingPaths(analyzeTryStatement(stmt, workingPath),
                                    remainingStatements)
               [] stmt.type = "SwitchStatement" ->
                    continuingPaths(analyzeSwitchStatement(stmt, workingPath),
                                    remainingStatements)
               [] stmt.type \in {"ForStatement", "WhileStatement", "DoWhileStatement"} ->
                    continuingPaths(analyzeLoopStatement(stmt, workingPath),
                                    remainingStatements)
               [] stmt.type = "ThrowStatement" ->
                    <<[statements |-> Append(workingPath, stmt),
                       endNode |-> stmt, terminated |-> "thrown"]>>
               [] OTHER ->
                    analyzeBlockFrom(statements, i + 1, Append(workingPath, stmt))

\* The for loop of analyzeBlock from statement i on, with the working path so far.
analyzeBlockFrom(statements, i, workingPath) ==
    IF i > Len(statements)
    THEN IF Len(workingPath) > 0
         THEN <<[statements |-> workingPath,
                 endNode |-> workingPath[Len(workingPath)],
                 terminated |-> "no"]>>
         ELSE <<>>
    ELSE LET stmt == statements[i]
             remainingStatements == SubSeq(statements, i + 1, Len(statements))
         IN  CASE stmt.type = "IfStatement" ->
                    continuingPaths(analyzeIfStatement(stmt, workingPath),
                                    remainingStatements)
               [] stmt.type = "TryStatement" ->
                    continuingPaths(analyzeTryStatement(stmt, workingPath),
                                    remainingStatements)
               [] stmt.type = "SwitchStatement" ->
                    continuingPaths(analyzeSwitchStatement(stmt, workingPath),
                                    remainingStatements)
               [] stmt.type \in {"ForStatement", "WhileStatement", "DoWhileStatement"} ->
                    continuingPaths(analyzeLoopStatement(stmt, workingPath),
                                    remainingStatements)
               [] stmt.type = "ReturnStatement" ->
                    <<[statements |-> Append(workingPath, stmt),
                       endNode |-> stmt, terminated |-> "yes"]>>
               [] stmt.type = "ThrowStatement" ->
                    <<[statements |-> Append(workingPath, stmt),
                       endNode |-> stmt, terminated |-> "thrown"]>>
               [] OTHER ->
                    analyzeBlockFrom(statements, i + 1, Append(workingPath, stmt))

\* findAllExecutionPaths without a path for a body that is no block
findAllExecutionPathsBlockOnly(callbackBody) ==
    IF callbackBody.type # "BlockStatement"
    THEN <<>>
    ELSE analyzeBlock(callbackBody.body, <<>>)

findAllExecutionPaths(callbackBody) ==
    IF callbackBody.type # "BlockStatement"
    THEN <<[statements |-> <<callbackBody>>, endNode |-> callbackBody,
            terminated |-> "no"]>>
    ELSE analyzeBlock(callbackBody.body, <<>>)

\* traverse that does not descend into function literals
traverseShallow(n, resolveParam, rejectParam) ==
    IF n.type \in {"ArrowFunctionExpression", "FunctionExpression"}
    THEN 0
    ELSE (IF /\ n.type = "CallExpression"
             /\ n.callee # <<>>
             /\ n.callee[1].type = "Identifier"
             /\ n.callee[1].name \in {resolveParam, rejectParam}
          THEN 1 ELSE 0)
         + traverseKeys(n, 1, resolveParam, rejectParam)

\* The count of one node and of everything below it.
traverse(n, resolveParam, rejectParam) ==
    (IF /\ n.type = "CallExpression"
        /\ n.callee # <<>>
        /\ n.callee[1].type = "Identifier"
        /\ n.callee[1].name \in {resolveParam, rejectParam}
     THEN 1 ELSE 0)
    + traverseKeys(n, 1, resolveParam, rejectParam)

\* for (const key in node): the child slots from ChildKeys[k] on.
traverseKeys(n, k, resolveParam, rejectParam) ==
    IF k > Len(ChildKeys)
    THEN 0
    ELSE (IF ChildKeys[k] \in DOMAIN n
          THEN traverseAll(n[ChildKeys[k]], resolveParam, rejectParam)
          ELSE 0)
         + traverseKeys(n, k + 1, resolveParam, rejectParam)

traverseAll(children, resolveParam, rejectParam) ==
    IF children = <<>>
    THEN 0
    ELSE traverse(Head(children), resolveParam, rejectParam)
         + traverseAll(Tail(children), resolveParam, rejectParam)

countCallbacksInStatement(stmt, resolveParam, rejectParam) ==
    traverse(stmt, resolveParam, rejectParam)

\* countCallbacksInPath that counts the calls of the last statement only
countCallbacksInPathLast(path, resolveParam, rejectParam) ==
    IF path.statements = <<>>
    THEN 0
    ELSE traverse(path.statements[Len(path.statements)], resolveParam, rejectParam)

countCallbacksInPath(path, resolveParam, rejectParam) ==
    traverseAll(path.statements, resolveParam, rejectParam)

\* pathIssue with the test for several callbacks off by one
pathIssueOffByOne(path, callbackBody, resolveParam, rejectParam) ==
    LET callbackCount == countCallbacksInPath(path, resolveParam, rejectParam)
    IN  IF callbackCount = 0
        THEN <<[node |-> path.endNode, messageId |-> "noCallback"]>>
        ELSE IF callbackCount > 2
             THEN <<[node |-> path.endNode, messageId |-> "multipleCallbacks"]>>
             ELSE <<>>

\* pathIssue that attaches every issue to the executor body
pathIssueAtBody(path, callbackBody, resolveParam, rejectParam) ==
    LET callbackCount == countCallbacksInPath(path, resolveParam, rejectParam)
    IN  IF callbackCount = 0
        THEN <<[node |-> callbackBody, messageId |-> "noCallback"]>>
        ELSE IF callbackCount > 1
             THEN <<[node |-> callbackBody, messageId |-> "multipleCallbacks"]>>
             ELSE <<>>

\* The issue of one path, <<>> when the path is accepted.
pathIssue(path, callbackBody, resolveParam, rejectParam) ==
    LET callbackCount == countCallbacksInPath(path, resolveParam, rejectParam)
    IN  IF callbackCount = 0
        THEN <<[node |-> path.endNode, messageId |-> "noCallback"]>>
        ELSE IF callbackCount > 1
             THEN <<[node |-> path.endNode, messageId |-> "multipleCallbacks"]>>
             ELSE <<>>

RECURSIVE pathIssues(_, _, _, _)
pathIssues(ps, callbackBody, resolveParam, rejectParam) ==
    IF ps = <<>>
    THEN <<>>
    ELSE pathIssue(Head(ps), callbackBody, resolveParam, rejectParam)
         \o pathIssues(Tail(ps), callbackBody, resolveParam, rejectParam)

analyzeExecutionPaths(callbackBody, resolveParam, rejectParam) ==
    pathIssues(findAllExecutionPaths(callbackBody), callbackBody,
               resolveParam, rejectParam)

(***************************************************************************)
(* The executors the rule is run on                                        *)
(***************************************************************************)
\* The most statement-level nodes (statements and switch cases) of a generated body.
MaxNodes == 2

LoopTypes == {"ForStatement", "WhileStatement", "DoWhileStatement"}

\* resolve(..); reject(..); a call of something else; return; throw
LeafKinds == {"resolve", "reject", "cleanup", "return", "throw"}

Leaf(kind, r) ==
    CASE kind = "return" -> ReturnStatement(r, <<>>)
      [] kind = "throw"  -> ThrowStatement(r)
      [] kind = "break"  -> BreakStatement(r)
      [] OTHER           -> ExpressionStatement(r, Call(kind))

RECURSIVE ListsOf(_, _, _, _)
RECURSIVE StmtsOf(_, _)
RECURSIVE CasesOf(_, _, _, _)
RECURSIVE Cup(_, _, _)

\* F[a] \cup F[a + 1] \cup ... \cup F[b]
Cup(a, b, F) == IF a > b THEN {} ELSE F[a] \cup Cup(a + 1, b, F)

\* The statement lists of exactly n nodes whose statements sit at the positions
\* r \o <<i>>, r \o <<i + 1>>, ...; `kinds` are the leaves allowed at their top level.
ListsOf(n, r, i, kinds) ==
    IF n = 0
    THEN {<<>>}
    ELSE Cup(1, n, [k \in 1..n |->
             { <<s>> \o rest :
               s \in { Leaf(kd, Append(r, i)) : kd \in (IF k = 1 THEN kinds ELSE {}) }
                     \cup StmtsOf(k, Append(r, i)),
               rest \in ListsOf(n - k, r, i + 1, kinds) }])

\* The case lists of exactly n nodes; case j of the switch at r sits at r \o <<j>>,
\* and case `dflt` (if any) is the default.
CasesOf(n, r, j, dflt) ==
    IF n = 0
    THEN {<<>>}
    ELSE Cup(1, n, [k \in 1..n |->
             { <<SwitchCase(Append(r, j), IF j = dflt THEN <<>> ELSE <<Literal>>, c)>>
               \o rest :
               c \in ListsOf(k - 1, Append(r, j), 1, LeafKinds \cup {"break"}),
               rest \in CasesOf(n - k, r, j + 1, dflt) }])

\* The compound statements of exactly k nodes at position r.
StmtsOf(k, r) ==
    LET Blocks(m, slot) ==
            { BlockStatement(Append(r, slot), b) :
              b \in ListsOf(m, Append(r, slot), 1, LeafKinds) }
        m == k - 1
    IN  { IfStatement(r, c, <<>>) : c \in Blocks(m, 1) }
        \cup Cup(0, m, [a \in 0..m |->
                 { IfStatement(r, c, <<e>>) : c \in Blocks(a, 1), e \in Blocks(m - a, 2) }])
        \cup { TryStatement(r, b, <<>>, <<>>) : b \in Blocks(m, 1) }
        \cup Cup(0, m, [a \in 0..m |->
                 { TryStatement(r, b, <<CatchClause(Append(r, 2), h)>>, <<>>) :
                   b \in Blocks(a, 1), h \in Blocks(m - a, 2) }])
        \cup Cup(0, m, [a \in 0..m |->
                 { TryStatement(r, b, <<>>, <<f>>) :
                   b \in Blocks(a, 1), f \in Blocks(m - a, 3) }])
        \cup Cup(0, m, [a \in 0..m |-> Cup(0, m - a, [c \in 0..(m - a) |->
                 { TryStatement(r, b, <<CatchClause(Append(r, 2), h)>>, <<f>>) :
                   b \in Blocks(a, 1), h \in Blocks(c, 2), f \in Blocks(m - a - c, 3) }])])
        \cup { LoopStatement("ForStatement", r, b) : b \in Blocks(m, 1) }
        \cup Cup(0, m, [dflt \in 0..m |->
                 { SwitchStatement(r, cs) : cs \in CasesOf(m, r, 1, dflt) }])

GeneratedBodies ==
    Cup(0, MaxNodes, [n \in 0..MaxNodes |->
        { BlockStatement(<<>>, b) : b \in ListsOf(n, <<>>, 1, LeafKinds) }])

\* The most statements of a generated straight-line body.
MaxStraight == 3

\* The most statements of the consequent of a generated if, and of a generated try block.
MaxBranch == 2

\* The most cases of a generated switch.
MaxCases == 2

\* The deepest nesting of a generated if/else tree.
MaxIfDepth == 2

\* The sequences of at most n elements of K.
UpTo(n, K) == Cup(0, n, [m \in 0..n |-> [1..m -> K]])

\* The leaves of the kinds ks at the positions r \o <<i>>, r \o <<i + 1>>, ...
LeafList(ks, r, i) == [j \in 1..Len(ks) |-> Leaf(ks[j], Append(r, i + j - 1))]

LeafBlock(ks, r) == BlockStatement(r, LeafList(ks, r, 1))

Body(statements) == BlockStatement(<<>>, statements)

\* Straight-line bodies, returns and throws at any place.
StraightLineBodies ==
    { Body(LeafList(ks, <<>>, 1)) : ks \in UpTo(MaxStraight, LeafKinds) }

\* prefix; if (c) { ... } [else { . }] suffix
IfBodies ==
    { Body(LeafList(p, <<>>, 1)
           \o <<IfStatement(<<Len(p) + 1>>, LeafBlock(c, <<Len(p) + 1, 1>>),
                            IF e = <<>> THEN <<>> ELSE <<LeafBlock(e[1], <<Len(p) + 1, 2>>)>>)>>
           \o LeafList(s, <<>>, Len(p) + 2)) :
      p \in {<<>>, <<"cleanup">>},
      c \in UpTo(MaxBranch, LeafKinds),
      e \in {<<>>, <<<<>>>>, <<<<"reject">>>>, <<<<"return">>>>},
      s \in {<<>>, <<"reject">>, <<"cleanup">>, <<"return">>} }

\* The if/else trees of depth at most d as the block at position r; a leaf
\* branch is a block of one statement.
RECURSIVE IfTrees(_, _)
IfTrees(d, r) ==
    { LeafBlock(<<kd>>, r) : kd \in {"resolve", "cleanup"} }
    \cup (IF d = 0
          THEN {}
          ELSE { BlockStatement(r, <<IfStatement(Append(r, 1), t, <<e>>)>>) :
                 t \in IfTrees(d - 1, r \o <<1, 1>>),
                 e \in IfTrees(d - 1, r \o <<1, 2>>) })

IfTreeBodies ==
    { t \in IfTrees(MaxIfDepth, <<>>) : t.body[1].type = "IfStatement" }

\* if (c) x; else y;   and   if (c) x; else if (d) y; else z;
BareIfBodies ==
    { Body(<<IfStatement(<<1>>, Leaf(x, <<1, 1>>), <<Leaf(y, <<1, 2>>)>>)>>) :
      x \in LeafKinds, y \in LeafKinds }
    \cup
    { Body(<<IfStatement(<<1>>, Leaf(x, <<1, 1>>),
               <<IfStatement(<<1, 2>>, Leaf(y, <<1, 2, 1>>), <<Leaf(z, <<1, 2, 2>>)>>)>>)>>) :
      x \in LeafKinds, y \in LeafKinds, z \in LeafKinds }

\* try { ... } [catch (e) { . }] [finally { . }] suffix
TryBodies ==
    { Body(<<TryStatement(<<1>>, LeafBlock(b, <<1, 1>>),
                          IF h = <<>> THEN <<>>
                          ELSE <<CatchClause(<<1, 2>>, LeafBlock(h[1], <<1, 2>>))>>,
                          IF f = <<>> THEN <<>> ELSE <<LeafBlock(f[1], <<1, 3>>)>>)>>
           \o LeafList(s, <<>>, 2)) :
      b \in UpTo(MaxBranch, {"resolve", "cleanup", "return", "throw"}),
      h \in {<<>>, <<<<>>>>, <<<<"reject">>>>, <<<<"return">>>>},
      f \in {<<>>, <<<<>>>>, <<<<"resolve">>>>, <<<<"cleanup">>>>},
      s \in {<<>>, <<"resolve">>, <<"cleanup">>} }

\* The bodies of a switch case.
CaseBodies ==
    {<<>>, <<"resolve">>, <<"cleanup">>, <<"return">>, <<"resolve", "break">>}

\* prefix; switch (status) { case ...: ...  [default: ...] } suffix
SwitchBodies ==
    { Body(LeafList(p, <<>>, 1)
           \o <<SwitchStatement(<<Len(p) + 1>>,
                  [j \in 1..Len(cs) |->
                      SwitchCase(<<Len(p) + 1, j>>,
                                 IF j = dflt THEN <<>> ELSE <<Literal>>,
                                 LeafList(cs[j], <<Len(p) + 1, j>>, 1))])>>
           \o LeafList(s, <<>>, Len(p) + 2)) :
      p \in {<<>>, <<"cleanup">>},
      cs \in UpTo(MaxCases, CaseBodies),
      dflt \in 0..MaxCases,
      s \in {<<>>, <<"resolve">>} }

\* switch (status) { case 's': .  case 'p': . break;  default: . }
\* -- the first case has no break
FallthroughBodies ==
    { Body(<<SwitchStatement(<<1>>,
              <<SwitchCase(<<1, 1>>, <<Literal>>, LeafList(<<a>>, <<1, 1>>, 1)),
                SwitchCase(<<1, 2>>, <<Literal>>, LeafList(<<b, "break">>, <<1, 2>>, 1)),
                SwitchCase(<<1, 3>>, <<>>, LeafList(<<c>>, <<1, 3>>, 1))>>)>>) :
      a \in {"resolve", "cleanup"}, b \in {"resolve", "cleanup"},
      c \in {"reject", "cleanup"} }

\* The statement lists of a generated loop body: leaves, or if (c) <leaf>
LoopInner(r) ==
    { LeafList(ks, r, 1) : ks \in UpTo(MaxBranch, {"resolve", "cleanup", "return"}) }
    \cup { <<IfStatement(Append(r, 1), Leaf(k, r \o <<1, 1>>), <<>>)>> :
           k \in {"resolve", "cleanup"} }

\* prefix; for/while/do-while (..) { ... } suffix, and the loops with a bare body
LoopBodies ==
    UNION { { Body(LeafList(p, <<>>, 1)
                   \o <<LoopStatement(t, <<Len(p) + 1>>,
                                      BlockStatement(<<Len(p) + 1, 1>>, b))>>
                   \o LeafList(s, <<>>, Len(p) + 2)) :
              t \in LoopTypes,
              b \in LoopInner(<<Len(p) + 1, 1>>),
              s \in {<<>>, <<"reject">>, <<"cleanup">>, <<"cleanup", "reject">>} } :
            p \in {<<>>, <<"cleanup">>, <<"resolve">>} }
    \cup { Body(<<LoopStatement(t, <<1>>, Leaf(k, <<1, 1>>))>> \o LeafList(s, <<>>, 2)) :
           t \in LoopTypes, k \in {"resolve", "cleanup"}, s \in {<<>>, <<"reject">>} }

\* The expressions of the generated expression statements
ExprKinds ==
    {"resolve", "cleanup", "member", "deferred", "deferredExpr", "argument",
     "nested", "then", "deferredIfElse"}

\* setTimeout(fn, 100)
SetTimeout(fn) == CallExpression(Identifier("setTimeout"), <<fn, Literal>>)

Expr(kind, r) ==
    CASE kind = "member" ->
            \* obj.resolve(..)
            CallExpression(MemberExpression(Identifier("obj"), Identifier("resolve")),
                           <<Literal>>)
      [] kind = "deferred" ->
            \* setTimeout(() => { resolve(..); }, 100)
            SetTimeout(ArrowFunctionExpression(<<>>, LeafBlock(<<"resolve">>, Append(r, 1))))
      [] kind = "deferredExpr" ->
            \* setTimeout(() => reject(..), 100)
            SetTimeout(ArrowFunctionExpression(<<>>, Call("reject")))
      [] kind = "argument" ->
            \* log(resolve(..))
            CallExpression(Identifier("log"), <<Call("resolve")>>)
      [] kind = "nested" ->
            \* resolve(reject(..))
            CallExpression(Identifier("resolve"), <<Call("reject")>>)
      [] kind = "then" ->
            \* promise.then(resolve, reject)
            CallExpression(MemberExpression(Identifier("promise"), Identifier("then")),
                           <<Identifier("resolve"), Identifier("reject")>>)
      [] kind = "deferredIfElse" ->
            \* setTimeout(() => { if (c) { resolve(..); } else { reject(..); } }, 100)
            SetTimeout(ArrowFunctionExpression(<<>>,
                BlockStatement(Append(r, 1),
                    <<IfStatement(r \o <<1, 1>>,
                                  LeafBlock(<<"resolve">>, r \o <<1, 1, 1>>),
                                  <<LeafBlock(<<"reject">>, r \o <<1, 1, 2>>)>>)>>)))
      [] OTHER -> Call(kind)

\* The most statements of a generated body of expression statements.
MaxExprs == 2

ExprList(ks) == [j \in 1..Len(ks) |-> ExpressionStatement(<<j>>, Expr(ks[j], <<j>>))]

\* Bodies of expression statements, and of one return with an argument
ExprBodies ==
    { Body(ExprList(ks)) : ks \in UpTo(MaxExprs, ExprKinds) }
    \cup { Body(<<ReturnStatement(<<1>>, <<Expr(k, <<1>>)>>)>>) : k \in ExprKinds }

\* The bodies of arrow functions without a block: (resolve, reject) => expression
ExpressionBodies ==
    { Expr(k, <<>>) : k \in ExprKinds } \cup {Identifier("value"), Literal}

\* The most consecutive ifs of a generated chain.
MaxChain == 4

\* if (c) { . } if (c) { . } ... resolve();  -- ifs without else in sequence
IfChainBodies ==
    { Body([i \in 1..Len(ks) |->
               IfStatement(<<i>>, LeafBlock(<<ks[i]>>, <<i, 1>>), <<>>)]
           \o <<Leaf("resolve", <<Len(ks) + 1>>)>>) :
      ks \in UpTo(MaxChain, {"cleanup", "reject"}) }

Executor(params, body) ==
    ArrowFunctionExpression([i \in 1..Len(params) |-> Identifier(params[i])], body)

NewPromise(params, body) ==
    NewExpression(Identifier("Promise"), <<Executor(params, body)>>)

\* new Promise((resolve, reject) => body) for the bodies of S
Promises(S) == { NewPromise(<<"resolve", "reject">>, b) : b \in S }

\* new expressions of another constructor, without an executor function, and
\* with executors of fewer or other parameters
OtherNodes ==
    { NewExpression(Identifier(c), args) :
      c \in {"Promise", "Foo"},
      args \in {<<>>, <<Identifier("executor")>>}
               \cup { <<Executor(ps, Body(LeafList(ks, <<>>, 1)))>> :
                      ps \in {<<>>, <<"resolve">>, <<"resolve", "reject">>, <<"res", "rej">>},
                      ks \in {<<>>, <<"resolve">>, <<"resolve", "reject">>} } }

\* The most parameters of a generated executor.
MaxParams == 3

\* Executors of zero to MaxParams parameters, each an identifier or a pattern
PatternNodes ==
    { NewExpression(Identifier("Promise"), <<ArrowFunctionExpression(ps, b)>>) :
      ps \in UpTo(MaxParams, {Identifier("resolve"), Identifier("reject"), ObjectPattern}),
      b \in { Body(LeafList(ks, <<>>, 1)) :
              ks \in {<<>>, <<"cleanup">>, <<"resolve">>, <<"resolve", "reject">>} }
            \cup {Call("resolve")} }

\* new window.Promise(executor): the callee is no identifier
MemberCalleeNodes ==
    { NewExpression(MemberExpression(Identifier("window"), Identifier("Promise")),
                    <<Executor(ps, Body(LeafList(ks, <<>>, 1)))>>) :
      ps \in {<<>>, <<"resolve">>, <<"resolve", "reject">>},
      ks \in {<<>>, <<"resolve">>, <<"resolve", "reject">>} }

(***************************************************************************)
(* The rule promise-constructor-callbacks (at least one callback): the     *)
(* module that rules/promise-constructor-callbacks.js exports, its second  *)
(* assignment to module.exports.                                           *)
(***************************************************************************)
RECURSIVE containsTargetCall(_, _)
RECURSIVE containsTargetCallKeys(_, _, _)
RECURSIVE containsTargetCallItems(_, _)
RECURSIVE analyzeBlockStatementFrom(_, _, _)

hasRequiredParameters(executorFn) ==
    Len(executorFn.params) >= 2

\* getParameterNames of this rule: no test of the number of parameters.
getParameterNamesOfCallbacks(executorFn) ==
    [resolve |-> IF Len(executorFn.params) >= 1
                 THEN ParamName(executorFn.params[1]) ELSE <<>>,
     reject  |-> IF Len(executorFn.params) >= 2
                 THEN ParamName(executorFn.params[2]) ELSE <<>>]

containsTargetCall(n, targetCalls) ==
    \/ /\ n.type = "CallExpression"
       /\ n.callee # <<>>
       /\ n.callee[1].type = "Identifier"
       /\ n.callee[1].name \in targetCalls
    \/ /\ n.type = "ExpressionStatement"
       /\ containsTargetCall(n.expression[1], targetCalls)
    \/ containsTargetCallKeys(n, 1, targetCalls)

\* for (const key in node): the child slots from ChildKeys[k] on.
containsTargetCallKeys(n, k, targetCalls) ==
    /\ k <= Len(ChildKeys)
    /\ \/ /\ ChildKeys[k] \in DOMAIN n
          /\ containsTargetCallItems(n[ChildKeys[k]], targetCalls)
       \/ containsTargetCallKeys(n, k + 1, targetCalls)

\* for (const item of child)
containsTargetCallItems(children, targetCalls) ==
    /\ children # <<>>
    /\ \/ containsTargetCall(Head(children), targetCalls)
       \/ containsTargetCallItems(Tail(children), targetCalls)

analyzeBlockStatement(blockNode, targetCalls) ==
    analyzeBlockStatementFrom(blockNode.body, 1, targetCalls)

\* <<>> stands for null.
analyzeAllPaths(n, targetCalls) ==
    IF n = <<>>
    THEN FALSE
    ELSE IF n[1].type = "BlockStatement"
         THEN analyzeBlockStatement(n[1], targetCalls)
         ELSE containsTargetCall(n[1], targetCalls)

\* The for loop of analyzeBlockStatement from statement i on.
analyzeBlockStatementFrom(statements, i, targetCalls) ==
    IF i > Len(statements)
    THEN FALSE
    ELSE LET stmt == statements[i]
             thenHasCall == analyzeAllPaths(stmt.consequent, targetCalls)
             elseHasCall ==
                 IF stmt.alternate # <<>>
                 THEN analyzeAllPaths(stmt.alternate, targetCalls) ELSE FALSE
             tryHasCall == analyzeAllPaths(stmt.block, targetCalls)
             catchHasCall ==
                 IF stmt.handler # <<>>
                 THEN analyzeAllPaths(stmt.handler[1].body, targetCalls) ELSE FALSE
         IN  IF containsTargetCall(stmt, targetCalls) THEN TRUE
             ELSE IF stmt.type = "IfStatement" /\ thenHasCall /\ elseHasCall THEN TRUE
             ELSE IF stmt.type = "TryStatement" /\ tryHasCall /\ catchHasCall THEN TRUE
             ELSE IF stmt.type = "ReturnStatement"
                  THEN containsTargetCall(stmt, targetCalls)
             ELSE IF stmt.type = "ThrowStatement" THEN FALSE
             ELSE analyzeBlockStatementFrom(statements, i + 1, targetCalls)

\* [resolveParam, rejectParam].filter(Boolean), the names as <<>> or <<name>>
analyzeExecutorFunction(executorFn, resolveParam, rejectParam) ==
    LET targetCalls == { resolveParam[k] : k \in DOMAIN resolveParam }
                       \cup { rejectParam[k] : k \in DOMAIN rejectParam }
    IN  IF targetCalls = {}
        THEN FALSE
        ELSE analyzeAllPaths(executorFn.body, targetCalls)

(***************************************************************************)
(* rules/promise-constructor-callbacks.js, the first module.exports of the  *)
(* file (lines 1-281); its containsTargetCall and its visitor are the same  *)
(* text as those of the second                                              *)
(***************************************************************************)
RECURSIVE guaranteesCallback(_, _)
RECURSIVE guaranteesCallbackBranches(_, _)
RECURSIVE hasPathWithoutCallback(_, _)
RECURSIVE analyzeBlockFirstFrom(_, _, _)

\* guaranteesCallback that looks at an if and a try by their branches only
guaranteesCallbackBranches(n, targetCalls) ==
    IF n = <<>>
    THEN FALSE
    ELSE CASE n[1].type = "IfStatement" ->
                 /\ guaranteesCallbackBranches(n[1].consequent, targetCalls)
                 /\ n[1].alternate # <<>>
                 /\ guaranteesCallbackBranches(n[1].alternate, targetCalls)
           [] n[1].type = "TryStatement" ->
                 /\ guaranteesCallbackBranches(n[1].block, targetCalls)
                 /\ n[1].handler # <<>>
                 /\ guaranteesCallbackBranches(n[1].handler[1].body, targetCalls)
           [] n[1].type = "BlockStatement" ->
                 \E j \in 1..Len(n[1].body) :
                    guaranteesCallbackBranches(<<n[1].body[j]>>, targetCalls)
           [] OTHER -> containsTargetCall(n[1], targetCalls)

\* node is a child slot: <<>> for null
guaranteesCallback(n, targetCalls) ==
    IF n = <<>>
    THEN FALSE
    ELSE IF containsTargetCall(n[1], targetCalls)
         THEN TRUE
         ELSE CASE n[1].type = "IfStatement" ->
                      /\ guaranteesCallback(n[1].consequent, targetCalls)
                      /\ n[1].alternate # <<>>
                      /\ guaranteesCallback(n[1].alternate, targetCalls)
                [] n[1].type = "TryStatement" ->
                      /\ guaranteesCallback(n[1].block, targetCalls)
                      /\ n[1].handler # <<>>
                      /\ guaranteesCallback(n[1].handler[1].body, targetCalls)
                [] n[1].type = "BlockStatement" ->
                      \E j \in 1..Len(n[1].body) :
                         guaranteesCallback(<<n[1].body[j]>>, targetCalls)
                [] OTHER -> FALSE

\* function analyzeBlock(blockNode, targetCalls) of the first definition
analyzeBlockFirst(blockNode, targetCalls) ==
    IF Len(blockNode.body) = 0
    THEN TRUE
    ELSE analyzeBlockFirstFrom(blockNode.body, 1, targetCalls)

hasPathWithoutCallback(n, targetCalls) ==
    IF n = <<>>
    THEN TRUE
    ELSE IF n[1].type = "BlockStatement"
         THEN analyzeBlockFirst(n[1], targetCalls)
         ELSE ~guaranteesCallback(n, targetCalls)

\* The for loop of analyzeBlock from statement i on.
analyzeBlockFirstFrom(statements, i, targetCalls) ==
    IF i > Len(statements)
    THEN TRUE
    ELSE LET stmt == statements[i]
             thenHasUncovered == hasPathWithoutCallback(stmt.consequent, targetCalls)
             elseHasUncovered ==
                 IF stmt.alternate # <<>>
                 THEN hasPathWithoutCallback(stmt.alternate, targetCalls) ELSE TRUE
             tryHasUncovered == hasPathWithoutCallback(stmt.block, targetCalls)
             catchHasUncovered ==
                 IF stmt.handler # <<>>
                 THEN hasPathWithoutCallback(stmt.handler[1].body, targetCalls) ELSE TRUE
         IN  IF guaranteesCallback(<<stmt>>, targetCalls) THEN FALSE
             ELSE IF stmt.type = "IfStatement"
                  THEN IF thenHasUncovered \/ elseHasUncovered
                       THEN analyzeBlockFirstFrom(statements, i + 1, targetCalls)
                       ELSE FALSE
             ELSE IF stmt.type = "TryStatement"
                  THEN IF tryHasUncovered \/ catchHasUncovered
                       THEN analyzeBlockFirstFrom(statements, i + 1, targetCalls)
                       ELSE FALSE
             ELSE IF stmt.type \in {"ReturnStatement", "ThrowStatement"}
                  THEN ~containsTargetCall(stmt, targetCalls)
             ELSE analyzeBlockFirstFrom(statements, i + 1, targetCalls)

\* analyzeExecutorFunction of the first definition
analyzeExecutorFunctionFirst(executorFn, resolveParam, rejectParam) ==
    LET targetCalls == { resolveParam[k] : k \in DOMAIN resolveParam }
                       \cup { rejectParam[k] : k \in DOMAIN rejectParam }
    IN  IF targetCalls = {}
        THEN FALSE
        ELSE ~hasPathWithoutCallback(executorFn.body, targetCalls)

(***************************************************************************)
(* rules/promise-constructor-exactly-one-callback.js: the same visitor with *)
(* its own analyzeBlock, which keeps the statements before a construct in   *)
(* the statement list it hands on and has no currentPath parameter          *)
(***************************************************************************)
RECURSIVE analyzeBlockShippedFrom(_, _, _, _)
RECURSIVE pathTerminates(_)

\* function analyzeBlock(statements)
analyzeBlockShipped(statements) == analyzeBlockShippedFrom(statements, 1, <<>>, <<>>)

\* node is a child slot: <<>> for null
pathTerminates(n) ==
    IF n = <<>>
    THEN FALSE
    ELSE IF n[1].type \in {"ReturnStatement", "ThrowStatement"}
         THEN TRUE
         ELSE IF n[1].type = "BlockStatement"
              THEN \E j \in 1..Len(n[1].body) : pathTerminates(<<n[1].body[j]>>)
              ELSE FALSE

ifPathsTerminate(ifStmt) ==
    LET thenTerminates == pathTerminates(ifStmt.consequent)
        elseTerminates ==
            IF ifStmt.alternate # <<>> THEN pathTerminates(ifStmt.alternate) ELSE FALSE
    IN  thenTerminates /\ elseTerminates

switchCasesTerminate(switchStmt) ==
    LET cases == switchStmt.cases
        caseTerminates(caseNode) ==
            \E j \in 1..Len(caseNode.consequent) :
               caseNode.consequent[j].type
                  \in {"ReturnStatement", "ThrowStatement", "BreakStatement"}
        hasDefault == \E j \in 1..Len(cases) : cases[j].test = <<>>
    IN  /\ \A j \in 1..Len(cases) : caseTerminates(cases[j])
        /\ hasDefault

analyzeIfStatementShipped(ifStmt, currentPath) ==
    LET thenPaths ==
            analyzeBlockShipped(currentPath \o blockStatements(ifStmt.consequent[1]))
        elsePaths ==
            IF ifStmt.alternate # <<>>
            THEN analyzeBlockShipped(currentPath \o blockStatements(ifStmt.alternate[1]))
            ELSE <<[statements |-> currentPath, endNode |-> ifStmt,
                    continuesAfterIf |-> TRUE]>>
    IN  thenPaths \o elsePaths

\* the finally block is not looked at
analyzeTryStatementShipped(tryStmt, currentPath) ==
    LET tryPaths == analyzeBlockShipped(currentPath \o tryStmt.block[1].body)
        catchPaths ==
            IF tryStmt.handler # <<>>
            THEN analyzeBlockShipped(currentPath \o tryStmt.handler[1].body[1].body)
            ELSE <<>>
    IN  catchPaths \o tryPaths

RECURSIVE analyzeSwitchCasesShipped(_, _)
\* analyzeSwitchStatement: for (const caseNode of cases)
analyzeSwitchCasesShipped(cases, currentPath) ==
    IF cases = <<>>
    THEN <<>>
    ELSE LET caseNode == Head(cases)
             casePaths ==
                 IF Len(caseNode.consequent) > 0
                 THEN analyzeBlockShipped(currentPath \o caseNode.consequent)
                 ELSE <<[statements |-> currentPath, endNode |-> caseNode,
                         isEmpty |-> TRUE]>>
         IN  casePaths \o analyzeSwitchCasesShipped(Tail(cases), currentPath)

analyzeSwitchStatementShipped(switchStmt, currentPath) ==
    LET cases == switchStmt.cases
        hasDefault == \E j \in 1..Len(cases) : cases[j].test = <<>>
    IN  analyzeSwitchCasesShipped(cases, currentPath)
        \o (IF ~hasDefault
            THEN <<[statements |-> currentPath, endNode |-> switchStmt,
                    isImplicitDefault |-> TRUE]>>
            ELSE <<>>)

analyzeLoopStatementShipped(loopStmt, currentPath) ==
    analyzeBlockShipped(currentPath \o blockStatements(loopStmt.body[1]))
    \o <<[statements |-> currentPath, endNode |-> loopStmt, isLoopSkip |-> TRUE]>>

\* analyzeBlock from statement i on, with the paths pushed so far
analyzeBlockShippedFrom(statements, i, currentPath, pushed) ==
    IF i > Len(statements)
    THEN IF Len(currentPath) > 0
         THEN pushed \o <<[statements |-> currentPath,
                           endNode |-> currentPath[Len(currentPath)]]>>
         ELSE pushed
    ELSE LET stmt == statements[i]
         IN  CASE stmt.type = "IfStatement" ->
                    LET ifPaths == analyzeIfStatementShipped(stmt, currentPath)
                    IN  IF ifPathsTerminate(stmt)
                        THEN pushed \o ifPaths
                        ELSE analyzeBlockShippedFrom(statements, i + 1,
                                 Append(currentPath, stmt), pushed \o ifPaths)
               [] stmt.type = "TryStatement" ->
                    analyzeBlockShippedFrom(statements, i + 1,
                        Append(currentPath, stmt),
                        pushed \o analyzeTryStatementShipped(stmt, currentPath))
               [] stmt.type = "SwitchStatement" ->
                    LET switchPaths == analyzeSwitchStatementShipped(stmt, currentPath)
                    IN  IF switchCasesTerminate(stmt)
                        THEN pushed \o switchPaths
                        ELSE analyzeBlockShippedFrom(statements, i + 1,
                                 Append(currentPath, stmt), pushed \o switchPaths)
               [] stmt.type \in LoopTypes ->
                    analyzeBlockShippedFrom(statements, i + 1,
                        Append(currentPath, stmt),
                        pushed \o analyzeLoopStatementShipped(stmt, currentPath))
               [] stmt.type \in {"ReturnStatement", "ThrowStatement"} ->
                    pushed \o <<[statements |-> Append(currentPath, stmt),
                                 endNode |-> stmt, terminates |-> TRUE]>>
               [] OTHER ->
                    analyzeBlockShippedFrom(statements, i + 1,
                        Append(currentPath, stmt), pushed)

findAllExecutionPathsShipped(callbackBody) ==
    IF callbackBody.type # "BlockStatement"
    THEN <<[statements |-> <<callbackBody>>, endNode |-> callbackBody]>>
    ELSE analyzeBlockShipped(callbackBody.body)

analyzeExecutionPathsShipped(callbackBody, resolveParam, rejectParam) ==
    pathIssues(findAllExecutionPathsShipped(callbackBody), callbackBody,
               resolveParam, rejectParam)

(***************************************************************************)
(* The visitor                                                             *)
(***************************************************************************)
Init ==
    /\ \/ node \in Promises(GeneratedBodies)
       \/ node \in Promises(StraightLineBodies)
       \/ node \in Promises(IfBodies)
       \/ node \in Promises(IfTreeBodies)
       \/ node \in Promises(BareIfBodies)
       \/ node \in Promises(TryBodies)
       \/ node \in Promises(SwitchBodies)
       \/ node \in Promises(LoopBodies)
       \/ node \in Promises(ExprBodies)
       \/ node \in Promises(ExpressionBodies)
       \/ node \in Promises(IfChainBodies)
       \/ node \in Promises(FallthroughBodies)
       \/ node \in OtherNodes
       \/ node \in PatternNodes
       \/ node \in MemberCalleeNodes
    /\ pc = "visit"
    /\ paths = <<>>
    /\ reports = <<>>

\* context.report for every issue, in order
issueReports(issues) == issues

VisitNewExpression ==
    /\ pc = "visit"
    /\ pc' = "done"
    /\ UNCHANGED node
    /\ IF ~isPromiseConstructor(node) \/ getExecutorFunction(node) = <<>>
       THEN /\ paths' = <<>>
            /\ reports' = <<>>
       ELSE LET executorFn == getExecutorFunction(node)[1]
                params == getParameterNames(executorFn)
            IN  IF params = <<>> \/ params[1].resolve = <<>> \/ params[1].reject = <<>>
                THEN /\ paths' = <<>>
                     /\ reports' = <<[node |-> executorFn,
                                      messageId |-> "missingParameters"]>>
                ELSE /\ paths' = findAllExecutionPaths(executorFn.body[1])
                     /\ reports' = issueReports(
                            analyzeExecutionPaths(executorFn.body[1],
                                                  params[1].resolve[1],
                                                  params[1].reject[1]))

\* NewExpression of promise-constructor-callbacks
CallbacksNewExpression ==
    /\ pc = "visit"
    /\ pc' = "callbacks"
    /\ UNCHANGED node
    /\ paths' = <<>>
    /\ IF ~isPromiseConstructor(node) \/ getExecutorFunction(node) = <<>>
       THEN reports' = <<>>
       ELSE LET executorFn == getExecutorFunction(node)[1]
                names == getParameterNamesOfCallbacks(executorFn)
            IN  IF ~hasRequiredParameters(executorFn)
                THEN reports' =
                        <<[node |-> executorFn,
                           messageId |-> IF Len(executorFn.params) = 0
                                         THEN "missingResolve" ELSE "missingReject"]>>
                ELSE IF names.resolve = <<>> \/ names.reject = <<>>
                THEN reports' =
                        <<[node |-> executorFn,
                           messageId |-> IF names.resolve = <<>>
                                         THEN "missingResolve" ELSE "missingReject"]>>
                ELSE IF ~analyzeExecutorFunction(executorFn, names.resolve, names.reject)
                THEN reports' = <<[node |-> executorFn, messageId |-> "noCallback"]>>
                ELSE reports' = <<>>

\* NewExpression of promise-constructor-exactly-one-callback
ShippedNewExpression ==
    /\ pc = "visit"
    /\ pc' = "shipped"
    /\ UNCHANGED node
    /\ IF ~isPromiseConstructor(node) \/ getExecutorFunction(node) = <<>>
       THEN /\ paths' = <<>>
            /\ reports' = <<>>
       ELSE LET executorFn == getExecutorFunction(node)[1]
                params == getParameterNames(executorFn)
            IN  IF params = <<>> \/ params[1].resolve = <<>> \/ params[1].reject = <<>>
                THEN /\ paths' = <<>>
                     /\ reports' = <<[node |-> executorFn,
                                      messageId |-> "missingParameters"]>>
                ELSE /\ paths' = findAllExecutionPathsShipped(executorFn.body[1])
                     /\ reports' = issueReports(
                            analyzeExecutionPathsShipped(executorFn.body[1],
                                                         params[1].resolve[1],
                                                         params[1].reject[1]))

\* NewExpression of the first definition of promise-constructor-callbacks
FirstNewExpression ==
    /\ pc = "visit"
    /\ pc' = "first"
    /\ UNCHANGED node
    /\ paths' = <<>>
    /\ IF ~isPromiseConstructor(node) \/ getExecutorFunction(node) = <<>>
       THEN reports' = <<>>
       ELSE LET executorFn == getExecutorFunction(node)[1]
                names == getParameterNamesOfCallbacks(executorFn)
            IN  IF ~hasRequiredParameters(executorFn)
                THEN reports' =
                        <<[node |-> executorFn,
                           messageId |-> IF Len(executorFn.params) = 0
                                         THEN "missingResolve" ELSE "missingReject"]>>
                ELSE IF names.resolve = <<>> \/ names.reject = <<>>
                THEN reports' =
                        <<[node |-> executorFn,
                           messageId |-> IF names.resolve = <<>>
                                         THEN "missingResolve" ELSE "missingReject"]>>
                ELSE IF ~analyzeExecutorFunctionFirst(executorFn, names.resolve,
                                                      names.reject)
                THEN reports' = <<[node |-> executorFn, messageId |-> "noCallback"]>>
                ELSE reports' = <<>>

Next ==
    \/ VisitNewExpression
    \/ CallbacksNewExpression
    \/ ShippedNewExpression
    \/ FirstNewExpression

Spec == Init /\ [][Next]_vars

\* Each rule is run by the linter on its own: the visitor of one rule alone.
SpecExactlyOne == Init /\ [][VisitNewExpression]_vars

SpecCallbacks == Init /\ [][CallbacksNewExpression \/ FirstNewExpression]_vars

(***************************************************************************)
(* Properties                                                              *)
(***************************************************************************)
Done == pc = "done"

\* The visit reached the path analysis: the node is new Promise(executor) and
\* the executor has its two named parameters.
Analysed ==
    /\ Done
    /\ isPromiseConstructor(node)
    /\ getExecutorFunction(node) # <<>>
    /\ Len(node.arguments[1].params) >= 2
    /\ \A i \in 1..2 : "name" \in DOMAIN node.arguments[1].params[i]

\* The executor body and its statements.
TheBody == node.arguments[1].body[1]

Stmts == TheBody.body

\* The number of calls of the executor's first two parameters on a path.
Count(path) ==
    countCallbacksInPath(path, node.arguments[1].params[1].name,
                         node.arguments[1].params[2].name)

\* The verdict of a count, and the diagnostics of the paths ps: one for each
\* path whose verdict is not "OK", on the anchor of the path.
Verdict(count) ==
    IF count = 0 THEN "noCallback" ELSE IF count = 1 THEN "OK" ELSE "multipleCallbacks"

RECURSIVE Diagnostics(_)
Diagnostics(ps) ==
    IF ps = <<>>
    THEN <<>>
    ELSE LET kind == Verdict(Count(Head(ps)))
         IN  (IF kind = "OK" THEN <<>>
              ELSE <<[node |-> Head(ps).endNode, messageId |-> kind]>>)
             \o Diagnostics(Tail(ps))

CompoundTypes == {"IfStatement", "TryStatement", "SwitchStatement"} \cup LoopTypes

TerminalTypes == {"ReturnStatement", "ThrowStatement"}

IsPlain(s) == s.type \notin CompoundTypes \cup TerminalTypes

AllPlain(ss) == \A j \in 1..Len(ss) : IsPlain(ss[j])

StraightLine(ss) == \A j \in 1..Len(ss) : ss[j].type \notin CompoundTypes

\* The statements of a straight-line sequence that run: those up to its first
\* return or throw.
Reached(ss) ==
    LET stops == { j \in 1..Len(ss) : ss[j].type \in TerminalTypes }
    IN  IF stops = {} THEN ss
        ELSE SubSeq(ss, 1, CHOOSE j \in stops : \A k \in stops : j <= k)

Terminal(s) ==
    IF s.type = "ReturnStatement" THEN "yes"
    ELSE IF s.type = "ThrowStatement" THEN "thrown" ELSE "no"

\* The path that runs the straight-line statements ss (not empty) after `before`.
Appended(before, ss) ==
    LET run == Reached(ss)
    IN  [statements |-> before \o run, endNode |-> run[Len(run)],
         terminated |-> Terminal(run[Len(run)])]

\* The body is plain statements, then a statement of type t, then something.
FirstCompoundIs(t) ==
    /\ TheBody.type = "BlockStatement"
    /\ \E i \in 1..Len(Stmts) : Stmts[i].type = t /\ AllPlain(SubSeq(Stmts, 1, i - 1))

FirstCompoundAt == CHOOSE i \in 1..Len(Stmts) : Stmts[i].type \in CompoundTypes

Prefix == SubSeq(Stmts, 1, FirstCompoundAt - 1)

Following == SubSeq(Stmts, FirstCompoundAt + 1, Len(Stmts))

RECURSIVE Flatten(_)
Flatten(seqs) == IF seqs = <<>> THEN <<>> ELSE Head(seqs) \o Flatten(Tail(seqs))

PathStatements == [i \in 1..Len(paths) |-> paths[i].statements]

Counts == [i \in 1..Len(paths) |-> Count(paths[i])]

\* if (c) { resolve(); return; } reject();
EarlyReturnBody ==
    Body(<<IfStatement(<<1>>, LeafBlock(<<"resolve", "return">>, <<1, 1>>), <<>>),
           Leaf("reject", <<2>>)>>)

SentinelNames ==
    { node.arguments[1].params[1].name, node.arguments[1].params[2].name }

\* try { resolve(); } catch (e) { reject(); } finally { resolve(); }
TryCatchFinallyBody ==
    Body(<<TryStatement(<<1>>, LeafBlock(<<"resolve">>, <<1, 1>>),
                        <<CatchClause(<<1, 2>>, LeafBlock(<<"reject">>, <<1, 2>>))>>,
                        <<LeafBlock(<<"resolve">>, <<1, 3>>)>>)>>)

\* The body is one try statement with a handler and a finalizer.
IsTryCatchFinally ==
    /\ TheBody.type = "BlockStatement"
    /\ Len(Stmts) = 1
    /\ Stmts[1].type = "TryStatement"
    /\ Stmts[1].handler # <<>>
    /\ Stmts[1].finalizer # <<>>

\* C3: with a handler and a finalizer, the finally statements are on every path,
\* those of the try body and those of the catch body; for
\* try { resolve() } catch (e) { reject() } finally { resolve() } both paths
\* have count 2 and both are reported as multipleCallbacks.
C3_FinallyJoin ==
    /\ (Analysed /\ IsTryCatchFinally) =>
          \A i \in 1..Len(paths) :
             \A f \in 1..Len(Stmts[1].finalizer[1].body) :
                \E j \in 1..Len(paths[i].statements) :
                   paths[i].statements[j] = Stmts[1].finalizer[1].body[f]
    /\ (Analysed /\ TheBody = TryCatchFinallyBody) =>
          /\ Counts = <<2, 2>>
          /\ Len(reports) = 2
          /\ \A k \in 1..Len(reports) : reports[k].messageId = "multipleCallbacks"

\* C4: every executor body has at least one enumerated path; the empty block
\* has one path of count 0 and is reported as noCallback.
C4_AtLeastOnePath ==
    /\ Analysed => Len(paths) >= 1
    /\ (Analysed /\ TheBody = Body(<<>>)) =>
          /\ Len(paths) = 1
          /\ Counts = <<0>>
          /\ Len(reports) = 1
          /\ reports[1].messageId = "noCallback"

\* if (c) {} else { resolve(); }
EmptyThenBody ==
    Body(<<IfStatement(<<1>>, LeafBlock(<<>>, <<1, 1>>),
                       <<LeafBlock(<<"resolve">>, <<1, 2>>)>>)>>)

\* C5: an if that is the last statement of the body, after plain statements or
\* none, gives at least two paths, one or more for each branch; the body
\* if (c) {} else { resolve() } has the empty path (count 0, noCallback) and
\* the path [resolve] (count 1).
C5_EveryIfForks ==
    /\ (Analysed /\ FirstCompoundIs("IfStatement") /\ Following = <<>>) =>
          Len(paths) >= 2
    /\ (Analysed /\ TheBody = EmptyThenBody) =>
          /\ PathStatements = << <<>>, <<Leaf("resolve", <<1, 2, 1>>)>> >>
          /\ Counts = <<0, 1>>
          /\ Len(reports) = 1
          /\ reports[1].messageId = "noCallback"

\* if (c) { resolve(); }
MissingElseBody ==
    Body(<<IfStatement(<<1>>, LeafBlock(<<"resolve">>, <<1, 1>>), <<>>)>>)

\* C6: for an if without an alternate that ends the body, after plain
\* statements or none, the last path is the synthetic one: its statements are
\* the statements before the if, its anchor is the if, it falls through, and
\* no other path is anchored at the if; the body if (c) { resolve() } has the
\* then-path of count 1 and the synthetic path of count 0, and the one
\* diagnostic is noCallback on the if.
C6_MissingElse ==
    /\ (Analysed /\ FirstCompoundIs("IfStatement") /\ Following = <<>>
                 /\ Stmts[FirstCompoundAt].alternate = <<>>) =>
          /\ Len(paths) >= 1
          /\ paths[Len(paths)].statements = Prefix
          /\ paths[Len(paths)].endNode = Stmts[FirstCompoundAt]
          /\ paths[Len(paths)].terminated = "no"
          /\ \A i \in 1..(Len(paths) - 1) : paths[i].endNode # Stmts[FirstCompoundAt]
    /\ (Analysed /\ TheBody = MissingElseBody) =>
          /\ PathStatements = << <<Leaf("resolve", <<1, 1, 1>>)>>, <<>> >>
          /\ Counts = <<1, 0>>
          /\ reports = <<[node |-> Stmts[1], messageId |-> "noCallback"]>>

\* An if without else after a plain statement was analysed: the synthetic path
\* holds the statement before the if.
C6_Witness ==
    /\ Analysed
    /\ FirstCompoundIs("IfStatement")
    /\ Following = <<>>
    /\ Stmts[FirstCompoundAt].alternate = <<>>
    /\ Len(Prefix) = 1
    /\ Len(paths) = 2
    /\ paths[2].statements = Prefix

RECURSIVE Descendants(_)

\* The nodes in the child slots of n, in order.
ChildSeq(n) ==
    Flatten([k \in 1..Len(ChildKeys) |->
                IF ChildKeys[k] \in DOMAIN n THEN n[ChildKeys[k]] ELSE <<>>])

\* n and every node below it.
Descendants(n) ==
    <<n>> \o Flatten([k \in 1..Len(ChildSeq(n)) |-> Descendants(ChildSeq(n)[k])])

\* The nodes of the statements ss and below them.
NodesOf(ss) ==
    Flatten([j \in 1..Len(ss) |-> Descendants(ss[j])])

\* A call whose callee is the bare name of one of the two callbacks.
IsSentinelCall(n) ==
    /\ n.type = "CallExpression"
    /\ n.callee[1].type = "Identifier"
    /\ n.callee[1].name \in SentinelNames

\* The number of callback calls in the statements ss and below them.
SentinelCalls(ss) ==
    LET nodes == NodesOf(ss)
    IN  Cardinality({ k \in 1..Len(nodes) : IsSentinelCall(nodes[k]) })

\* The index set of the statements of ss that call one of the two callbacks.
SentinelStatements(ss) ==
    { j \in 1..Len(ss) :
        /\ ss[j].type = "ExpressionStatement"
        /\ IsSentinelCall(ss[j].expression[1]) }

RECURSIVE IsIfElseTree(_), LeafBranches(_), StatementLists(_)

\* The statement of a branch: the only statement of a block, or the branch.
BranchStatement(branch) ==
    IF branch.type = "BlockStatement" THEN branch.body[1] ELSE branch

\* branch is one callback call, or an if/else whose two arms are such trees.
IsIfElseTree(branch) ==
    /\ branch.type = "BlockStatement" => Len(branch.body) = 1
    /\ LET s == BranchStatement(branch)
       IN  IF s.type = "IfStatement"
           THEN /\ s.alternate # <<>>
                /\ IsIfElseTree(s.consequent[1])
                /\ IsIfElseTree(s.alternate[1])
           ELSE SentinelStatements(<<s>>) = {1}

LeafBranches(branch) ==
    LET s == BranchStatement(branch)
    IN  IF s.type = "IfStatement"
        THEN LeafBranches(s.consequent[1]) + LeafBranches(s.alternate[1])
        ELSE 1

\* if (c) { resolve(); } else { reject(); }
IfElseBody ==
    Body(<<IfStatement(<<1>>, LeafBlock(<<"resolve">>, <<1, 1>>),
                       <<LeafBlock(<<"reject">>, <<1, 2>>)>>)>>)

\* C7: when the body is one if/else tree, nested to any depth, whose every leaf
\* branch is exactly one callback call, there is one path per leaf branch,
\* every path has count 1 and nothing is reported; if (c) { resolve() } else
\* { reject() } has two paths.
C7_IfElseTree ==
    /\ (Analysed /\ TheBody.type = "BlockStatement" /\ IsIfElseTree(TheBody)
                 /\ Stmts[1].type = "IfStatement") =>
          /\ Len(paths) = LeafBranches(TheBody)
          /\ \A i \in 1..Len(paths) : Count(paths[i]) = 1
          /\ reports = <<>>
    /\ (Analysed /\ TheBody = IfElseBody) =>
          /\ PathStatements = << <<Leaf("resolve", <<1, 1, 1>>)>>,
                                 <<Leaf("reject", <<1, 2, 1>>)>> >>
          /\ reports = <<>>

\* A nested if/else tree with at least three leaf branches was analysed.
C7_Witness ==
    /\ Analysed
    /\ TheBody.type = "BlockStatement"
    /\ IsIfElseTree(TheBody)
    /\ Stmts[1].type = "IfStatement"
    /\ LeafBranches(TheBody) >= 3
    /\ Len(paths) = LeafBranches(TheBody)

\* resolve(); reject();
TwoCallsBody ==
    Body(LeafList(<<"resolve", "reject">>, <<>>, 1))

\* C8: a non-empty body of plain statements only has exactly one path, holding
\* all its statements in order and anchored at the last one; its count is the
\* number of callback calls in the body; resolve(); reject(); yields exactly
\* one multipleCallbacks diagnostic.
C8_StraightLine ==
    /\ (Analysed /\ TheBody.type = "BlockStatement" /\ Stmts # <<>> /\ AllPlain(Stmts)) =>
          /\ Len(paths) = 1
          /\ paths[1].statements = Stmts
          /\ paths[1].endNode = Stmts[Len(Stmts)]
          /\ paths[1].terminated = "no"
          /\ Count(paths[1]) = SentinelCalls(Stmts)
          /\ reports = Diagnostics(paths)
          /\ Len(reports) = IF Count(paths[1]) = 1 THEN 0 ELSE 1
    /\ (Analysed /\ TheBody = TwoCallsBody /\ SentinelNames = {"resolve", "reject"}) =>
          reports = <<[node |-> Stmts[2], messageId |-> "multipleCallbacks"]>>

\* A plain body of three statements, two of them callback calls, was analysed.
C8_Witness ==
    /\ Analysed
    /\ TheBody.type = "BlockStatement"
    /\ Len(Stmts) = 3
    /\ AllPlain(Stmts)
    /\ Cardinality(SentinelStatements(Stmts)) = 2
    /\ Len(paths) = 1
    /\ Len(reports) = 1
    /\ reports[1].messageId = "multipleCallbacks"

\* The elements of a sequence.
Range(s) ==
    { s[i] : i \in DOMAIN s }

\* The nodes held by the child slots of n.
Children(n) ==
    UNION { Range(n[key]) : key \in Range(ChildKeys) \cap DOMAIN n }

\* Every statement list of the tree under n: block bodies and case bodies.
StatementLists(n) ==
    (IF n.type = "BlockStatement" THEN {n.body}
     ELSE IF n.type = "SwitchCase" THEN {n.consequent}
     ELSE {})
    \cup UNION { StatementLists(c) : c \in Children(n) }

\* The statements that follow a return or a throw in their own list.
DeadStatements ==
    UNION { { L[j] : j \in { k \in 1..Len(L) :
                               \E i \in 1..(k - 1) : L[i].type \in TerminalTypes } }
            : L \in StatementLists(TheBody) }

Core(path) ==
    [statements |-> path.statements, endNode |-> path.endNode,
     terminated |-> path.terminated]

\* The body is plain statements, then a loop, then something.
FirstCompoundIsLoop ==
    \E t \in LoopTypes : FirstCompoundIs(t)

\* for (..) { if (c) resolve(); } reject();
LoopIfBody ==
    Body(<<LoopStatement("ForStatement", <<1>>,
              BlockStatement(<<1, 1>>,
                  <<IfStatement(<<1, 1, 1>>, Leaf("resolve", <<1, 1, 1, 1>>), <<>>)>>)),
           Leaf("reject", <<2>>)>>)

\* C11: for a loop after plain statements and before straight-line statements,
\* the paths are those of the loop body run once after the prefix, then one
\* path equal to the prefix and anchored at the loop, and the statements after
\* the loop are appended to each of them that fell through; for
\* for (..) { if (c) resolve(); } reject(); the paths have counts 2, 1, 1 and
\* the one diagnostic is multipleCallbacks.
C11_LoopPaths ==
    /\ (Analysed /\ FirstCompoundIsLoop /\ StraightLine(Following)) =>
          LET loop == Stmts[FirstCompoundAt]
              bodyStatements ==
                  IF loop.body[1].type = "BlockStatement"
                  THEN loop.body[1].body ELSE <<loop.body[1]>>
              bodyPaths ==
                  IF StraightLine(bodyStatements) /\ bodyStatements # <<>>
                  THEN <<Appended(Prefix, bodyStatements)>>
                  ELSE analyzeBlock(bodyStatements, Prefix)
              sub == bodyPaths
                     \o <<[statements |-> Prefix, endNode |-> loop, terminated |-> "no"]>>
          IN  /\ Len(paths) = Len(sub)
              /\ \A k \in 1..Len(sub) :
                    Core(paths[k]) =
                       IF sub[k].terminated # "no" \/ Following = <<>>
                       THEN Core(sub[k])
                       ELSE Appended(sub[k].statements, Following)
    /\ (Analysed /\ TheBody = LoopIfBody) =>
          /\ PathStatements =
                << <<Leaf("resolve", <<1, 1, 1, 1>>), Leaf("reject", <<2>>)>>,
                   <<Leaf("reject", <<2>>)>>,
                   <<Leaf("reject", <<2>>)>> >>
          /\ Counts = <<2, 1, 1>>
          /\ reports = <<[node |-> Leaf("reject", <<2>>), messageId |-> "multipleCallbacks"]>>

\* A loop between a plain statement and a callback call was analysed: the path
\* of the loop that does not run holds the prefix and the statement after it.
C11_Witness ==
    /\ Analysed
    /\ FirstCompoundIsLoop
    /\ Len(Prefix) = 1
    /\ Len(Following) = 1
    /\ AllPlain(Following)
    /\ Len(paths) = 2
    /\ paths[1].statements # paths[2].statements
    /\ paths[2].statements = Prefix \o Following
    /\ \E k \in 1..Len(reports) : reports[k].messageId = "multipleCallbacks"

\* resolve(..); setTimeout(() => { resolve(..); }, 100);
SyncAndDeferredBody ==
    Body(ExprList(<<"resolve", "deferred">>))

Visited ==
    /\ Done
    /\ node.callee[1] = Identifier("Promise")
    /\ node.arguments # <<>>
    /\ node.arguments[1].type = "ArrowFunctionExpression"

\* The executor lacks one of its first two parameter names.
LacksParameters ==
    LET params == node.arguments[1].params
    IN  \/ Len(params) < 2
        \/ params[1].type # "Identifier"
        \/ params[2].type # "Identifier"

C14_NonBlockBody ==
    /\ (Analysed /\ TheBody.type # "BlockStatement") =>
          /\ Len(paths) = 1
          /\ Core(paths[1]) =
                [statements |-> <<TheBody>>, endNode |-> TheBody, terminated |-> "no"]
          /\ Count(paths[1]) = SentinelCalls(<<TheBody>>)
          /\ reports = Diagnostics(paths)
    /\ (Analysed /\ TheBody = Call("resolve") /\ SentinelNames = {"resolve", "reject"}) =>
          /\ Counts = <<1>>
          /\ reports = <<>>

\* (resolve, reject) => resolve('x') was analysed, and so was an expression
\* body without a callback call.
C14_Witness ==
    /\ Analysed
    /\ TheBody = Call("resolve")
    /\ SentinelNames = {"resolve", "reject"}
    /\ Len(paths) = 1
    /\ paths[1].endNode = TheBody
    /\ reports = <<>>

\* A ceiling on the number of paths that the longest generated chain of ifs
\* exceeds.
PathCeiling == 2 ^ (MaxChain - 1)

\* The analysis gave up: a diagnostic other than the verdicts of paths.
Aborted ==
    \E k \in 1..Len(reports) :
       reports[k].messageId \notin {"noCallback", "multipleCallbacks"}

\* C16: the analysis enumerates at most a ceiling of paths; on a body with more
\* paths it stops with a distinct 'path limit exceeded' outcome.
C16_PathLimit ==
    Analysed => (Len(paths) <= PathCeiling \/ Aborted)

\* promise-constructor-callbacks visited the node.
CallbacksDone == pc = "callbacks"

\* The node is new Promise(function literal).
IsPromiseWithExecutor ==
    /\ node.callee[1] = Identifier("Promise")
    /\ node.arguments # <<>>
    /\ node.arguments[1].type \in {"ArrowFunctionExpression", "FunctionExpression"}

\* promise-constructor-callbacks reached its analysis of the body: the node is
\* new Promise(executor) and the executor has its two named parameters.
CallbacksAnalysed ==
    /\ CallbacksDone
    /\ IsPromiseWithExecutor
    /\ Len(node.arguments[1].params) >= 2
    /\ \A i \in 1..2 : node.arguments[1].params[i].type = "Identifier"

\* C17: promise-constructor-callbacks reports noCallback when a path through
\* the body calls neither callback: for a body of plain statements without a
\* callback call followed by an if without else, with nothing after the if,
\* exactly one noCallback is reported, on the executor; so it is for
\* if (c) { resolve() } alone.
C17_AtLeastOneCallback ==
    /\ (CallbacksAnalysed /\ FirstCompoundIs("IfStatement") /\ Following = <<>>
                          /\ Stmts[FirstCompoundAt].alternate = <<>>
                          /\ SentinelCalls(Prefix) = 0) =>
          reports = <<[node |-> node.arguments[1], messageId |-> "noCallback"]>>
    /\ (CallbacksAnalysed /\ TheBody = MissingElseBody) =>
          reports = <<[node |-> node.arguments[1], messageId |-> "noCallback"]>>

\* C18: promise-constructor-callbacks reports an executor without parameters
\* with exactly one missingResolve and an executor with one parameter with
\* exactly one missingReject, whatever the body, and never reports a new
\* expression whose callee is not the identifier Promise or whose first
\* argument is not a function literal.
C18_ParameterCheck ==
    /\ (CallbacksDone /\ ~IsPromiseWithExecutor) => reports = <<>>
    /\ (CallbacksDone /\ IsPromiseWithExecutor /\ Len(node.arguments[1].params) = 0) =>
          reports = <<[node |-> node.arguments[1], messageId |-> "missingResolve"]>>
    /\ (CallbacksDone /\ IsPromiseWithExecutor /\ Len(node.arguments[1].params) = 1) =>
          reports = <<[node |-> node.arguments[1], messageId |-> "missingReject"]>>

\* An executor (resolve) => {} was visited: missingReject only, although the
\* body calls nothing.
C18_Witness ==
    /\ CallbacksDone
    /\ IsPromiseWithExecutor
    /\ node.arguments[1].params = <<Identifier("resolve")>>
    /\ TheBody = Body(<<>>)
    /\ reports = <<[node |-> node.arguments[1], messageId |-> "missingReject"]>>

\* if (c) { return; } reject();
ReturnInIfBody ==
    Body(<<IfStatement(<<1>>, LeafBlock(<<"return">>, <<1, 1>>), <<>>),
           Leaf("reject", <<2>>)>>)

\* if (c) { resolve(); } else { return; }
ReturnInElseBody ==
    Body(<<IfStatement(<<1>>, LeafBlock(<<"resolve">>, <<1, 1>>),
                       <<LeafBlock(<<"return">>, <<1, 2>>)>>)>>)

\* C19: a path that ends at a return without a callback call on it is
\* accepted: no diagnostic is anchored at the return of such a path, and the
\* bodies if (c) { return; } reject(); and if (c) { resolve(); } else
\* { return; } get no diagnostic.
C19_BareReturnAccepted ==
    /\ Analysed =>
          \A i \in 1..Len(paths) :
             (paths[i].terminated = "yes" /\ Count(paths[i]) = 0) =>
                \A k \in 1..Len(reports) : reports[k].node # paths[i].endNode
    /\ (Analysed /\ TheBody = ReturnInIfBody) => reports = <<>>
    /\ (Analysed /\ TheBody = ReturnInElseBody) => reports = <<>>

\* setTimeout(() => { if (c) { resolve(); } else { reject(); } }, 100);
DeferredIfElseBody ==
    Body(ExprList(<<"deferredIfElse">>))

\* C20: when the only statement of the body is a call that takes a function
\* whose body is an if/else with one callback call in each branch, nothing is
\* reported.
C20_DeferredSettlement ==
    (Analysed /\ TheBody = DeferredIfElseBody /\ SentinelNames = {"resolve", "reject"}) =>
       reports = <<>>

\* switch (status) { case 's': resolve(); case 'p': resolve(); break;
\*                   default: reject(); }
FallthroughBody ==
    Body(<<SwitchStatement(<<1>>,
             <<SwitchCase(<<1, 1>>, <<Literal>>, LeafList(<<"resolve">>, <<1, 1>>, 1)),
               SwitchCase(<<1, 2>>, <<Literal>>,
                          LeafList(<<"resolve", "break">>, <<1, 2>>, 1)),
               SwitchCase(<<1, 3>>, <<>>, LeafList(<<"reject">>, <<1, 3>>, 1))>>)>>)

\* Case j of the switch sw runs into case j + 1: its body is not empty and its
\* last statement is no break, return or throw.
FallsThrough(sw, j) ==
    /\ j < Len(sw.cases)
    /\ sw.cases[j].consequent # <<>>
    /\ StraightLine(sw.cases[j].consequent)
    /\ \A k \in 1..Len(sw.cases[j].consequent) :
          sw.cases[j].consequent[k].type
             \notin {"BreakStatement", "ReturnStatement", "ThrowStatement"}

\* C21: when the body is a switch in which a case that calls a callback falls
\* through into a case that calls one too, multipleCallbacks is reported; for
\* case 's': resolve(); case 'p': resolve(); break; default: reject(); it is
\* the one diagnostic.
C21_SwitchFallthrough ==
    /\ (Analysed /\ FirstCompoundIs("SwitchStatement") /\ Len(Stmts) = 1
                 /\ \E j \in 1..Len(Stmts[1].cases) :
                       /\ FallsThrough(Stmts[1], j)
                       /\ SentinelCalls(Stmts[1].cases[j].consequent) >= 1
                       /\ SentinelCalls(Stmts[1].cases[j + 1].consequent) >= 1) =>
          \E k \in 1..Len(reports) : reports[k].messageId = "multipleCallbacks"
    /\ (Analysed /\ TheBody = FallthroughBody) =>
          /\ Len(reports) = 1
          /\ reports[1].messageId = "multipleCallbacks"

\* try { resolve(); return; } finally { cleanup(); } resolve();
ReturnInTryBody ==
    Body(<<TryStatement(<<1>>, LeafBlock(<<"resolve", "return">>, <<1, 1>>), <<>>,
                        <<LeafBlock(<<"cleanup">>, <<1, 3>>)>>),
           Leaf("resolve", <<2>>)>>)

\* The statement s is on the path.
OnPath(s, path) ==
    \E j \in 1..Len(path.statements) : path.statements[j] = s

\* C22: when the body starts with a try that has a finalizer and whose block
\* ends in a return or throw, a path that holds that return or throw holds no
\* statement that follows the try, and it is still marked as returned or
\* thrown unless the finally block returns or throws itself; for
\* try { resolve(); return; } finally { cleanup(); } resolve(); no path holds
\* both calls of resolve.
C22_TerminatedThroughFinally ==
    /\ (Analysed /\ FirstCompoundIs("TryStatement") /\ Prefix = <<>>
                 /\ Stmts[1].finalizer # <<>>
                 /\ StraightLine(Stmts[1].block[1].body)
                 /\ ~AllPlain(Stmts[1].block[1].body)) =>
          LET run == Reached(Stmts[1].block[1].body)
              stop == run[Len(run)]
          IN  \A i \in 1..Len(paths) :
                 OnPath(stop, paths[i]) =>
                    /\ \A m \in 1..Len(Following) : ~OnPath(Following[m], paths[i])
                    /\ AllPlain(Stmts[1].finalizer[1].body) =>
                          paths[i].terminated = Terminal(stop)
    /\ (Analysed /\ TheBody = ReturnInTryBody) =>
          \A i \in 1..Len(paths) :
             ~(OnPath(Leaf("resolve", <<1, 1, 1>>), paths[i])
               /\ OnPath(Leaf("resolve", <<2>>), paths[i]))

\* The number of places of the path that hold the statement s.
Occurrences(s, path) ==
    Cardinality({j \in 1..Len(path.statements) : path.statements[j] = s})

\* The body is plain statements, then a try, a switch or a loop, then plain
\* statements, returns or throws, at least one.
BranchThenStatements ==
    /\ \/ FirstCompoundIs("TryStatement")
       \/ FirstCompoundIs("SwitchStatement")
       \/ FirstCompoundIsLoop
    /\ Following # <<>>
    /\ StraightLine(Following)

\* The paths of the first try, switch or loop of the body, before the
\* statements that follow it are looked at.
SubPaths ==
    LET stmt == Stmts[FirstCompoundAt]
    IN  CASE stmt.type = "TryStatement"    -> analyzeTryStatement(stmt, Prefix)
          [] stmt.type = "SwitchStatement" -> analyzeSwitchStatement(stmt, Prefix)
          [] OTHER                         -> analyzeLoopStatement(stmt, Prefix)

\* C23: when statements follow a try, a switch or a loop, every path of the
\* construct that is not marked as returned or thrown (a case body ending in
\* break included) is replaced, in place, by the path that has its statements
\* as prefix and then the following statements, each exactly once, up to their
\* first return or throw; a path marked as returned or thrown is kept as it
\* is; no path of the construct is lost and none is added.
C23_ContinuationAfterBranch ==
    (Analysed /\ BranchThenStatements) =>
       LET sub == SubPaths
           run == Reached(Following)
       IN  /\ Len(paths) = Len(sub)
           /\ \A k \in 1..Len(sub) :
                 IF sub[k].terminated = "no"
                 THEN /\ paths[k] = Appended(sub[k].statements, Following)
                      /\ \A m \in 1..Len(run) : Occurrences(run[m], paths[k]) = 1
                 ELSE /\ paths[k] = sub[k]
                      /\ \A m \in 1..Len(run) : Occurrences(run[m], paths[k]) = 0

\* A switch with a case that ends in break and a case that returns, followed by
\* a call of resolve, was analysed: the path of the first case goes on into the
\* call and is reported, the path of the second stops at its return.
C23_Witness ==
    /\ Analysed
    /\ FirstCompoundIs("SwitchStatement")
    /\ Following = <<Leaf("resolve", <<2>>)>>
    /\ Len(paths) = 3
    /\ paths[1].statements =
          <<Leaf("resolve", <<1, 1, 1>>), Leaf("break", <<1, 1, 2>>), Leaf("resolve", <<2>>)>>
    /\ paths[2].terminated = "yes"
    /\ Occurrences(Leaf("resolve", <<2>>), paths[2]) = 0
    /\ paths[3].statements = <<Leaf("resolve", <<2>>)>>
    /\ \E k \in 1..Len(reports) : reports[k].messageId = "multipleCallbacks"

RECURSIVE BranchFactor(_), BranchFactors(_)

\* The branch factor of one statement times those of the constructs in it:
\* 2 for an if, a try and a loop, the number of cases (plus one without a
\* default) for a switch, 1 for anything else.
BranchFactor(s) ==
    CASE s.type = "IfStatement" ->
            2 * BranchFactors(blockStatements(s.consequent[1]))
              * (IF s.alternate = <<>> THEN 1
                 ELSE BranchFactors(blockStatements(s.alternate[1])))
      [] s.type = "TryStatement" ->
            2 * BranchFactors(s.block[1].body)
              * (IF s.handler = <<>> THEN 1
                 ELSE BranchFactors(s.handler[1].body[1].body))
              * (IF s.finalizer = <<>> THEN 1
                 ELSE BranchFactors(s.finalizer[1].body))
      [] s.type = "SwitchStatement" ->
            (Len(s.cases)
             + (IF \E j \in 1..Len(s.cases) : s.cases[j].test = <<>> THEN 0 ELSE 1))
            * BranchFactors(Flatten([j \in 1..Len(s.cases) |-> s.cases[j].consequent]))
      [] s.type \in LoopTypes ->
            2 * BranchFactors(blockStatements(s.body[1]))
      [] OTHER -> 1

\* The product of the branch factors of the statements of a list.
BranchFactors(ss) ==
    IF ss = <<>> THEN 1 ELSE BranchFactor(Head(ss)) * BranchFactors(Tail(ss))

\* C24: the number of enumerated paths is at most the product of the branch
\* factors of the ifs, tries, loops (2 each) and switches (number of cases,
\* plus one without a default) of the body, nested ones included; a body
\* without any of them has at most one path.
C24_FanOutBound ==
    Analysed =>
       /\ Len(paths) <= BranchFactors(blockStatements(TheBody))
       /\ (TheBody.type = "BlockStatement" /\ AllPlain(Stmts)) => Len(paths) <= 1

\* A body with two constructs or more was analysed and its paths are as many
\* as the bound allows, four at least.
C24_Witness ==
    /\ Analysed
    /\ TheBody.type = "BlockStatement"
    /\ Cardinality({j \in 1..Len(Stmts) : Stmts[j].type \in CompoundTypes}) >= 2
    /\ Len(paths) >= 4
    /\ Len(paths) = BranchFactors(Stmts)

\* try { } finally { resolve(); } resolve();
EmptyTryFinallyBody ==
    Body(<<TryStatement(<<1>>, LeafBlock(<<>>, <<1, 1>>), <<>>,
                        <<LeafBlock(<<"resolve">>, <<1, 3>>)>>),
           Leaf("resolve", <<2>>)>>)

\* The body is plain statements, then a try without a catch clause whose block
\* is plain statements, then plain statements, returns or throws.
IsTryWithoutHandler ==
    /\ FirstCompoundIs("TryStatement")
    /\ Stmts[FirstCompoundAt].handler = <<>>
    /\ AllPlain(Stmts[FirstCompoundAt].block[1].body)
    /\ StraightLine(Following)

\* C25: a switch without cases gives exactly one path, the statements before
\* it and then the statements that follow it; a try without catch and finally
\* whose block is plain statements gives exactly one path, the statements
\* before it, its block and the statements that follow; with a finally block
\* of plain statements the finally statements stand between the block and the
\* following statements; try { } finally { resolve(); } resolve(); is one path
\* of count 2 and is reported as multipleCallbacks.
C25_DegenerateConstructs ==
    /\ (Analysed /\ FirstCompoundIs("SwitchStatement")
                 /\ Stmts[FirstCompoundAt].cases = <<>> /\ StraightLine(Following)) =>
          /\ Len(paths) = 1
          /\ paths[1].statements = Prefix \o Reached(Following)
          /\ Following = <<>> => paths[1].endNode = Stmts[FirstCompoundAt]
    /\ (Analysed /\ IsTryWithoutHandler /\ Stmts[FirstCompoundAt].finalizer = <<>>) =>
          /\ Len(paths) = 1
          /\ paths[1].statements =
                Prefix \o Stmts[FirstCompoundAt].block[1].body \o Reached(Following)
    /\ (Analysed /\ IsTryWithoutHandler /\ Stmts[FirstCompoundAt].finalizer # <<>>
                 /\ AllPlain(Stmts[FirstCompoundAt].finalizer[1].body)) =>
          /\ Len(paths) = 1
          /\ paths[1].statements =
                Prefix \o Stmts[FirstCompoundAt].block[1].body
                       \o Stmts[FirstCompoundAt].finalizer[1].body \o Reached(Following)
    /\ (Analysed /\ TheBody = EmptyTryFinallyBody /\ SentinelNames = {"resolve", "reject"}) =>
          /\ Counts = <<2>>
          /\ Len(reports) = 1
          /\ reports[1].messageId = "multipleCallbacks"

\* The child slots of a node in which statements, blocks, clauses and cases stand.
StatementKeys ==
    <<"body", "consequent", "alternate", "block", "handler", "finalizer", "cases">>

RECURSIVE StatementsBelow(_)
\* n and every statement, block, catch clause and switch case below it that is
\* not part of an expression.
StatementsBelow(n) ==
    <<n>> \o Flatten([k \in 1..Len(StatementKeys) |->
                        IF StatementKeys[k] \in DOMAIN n
                        THEN Flatten([j \in 1..Len(n[StatementKeys[k]]) |->
                                        StatementsBelow(n[StatementKeys[k]][j])])
                        ELSE <<>>])

\* The types of the nodes that stand for a path without statements of its own.
SyntheticAnchorTypes == {"IfStatement", "SwitchCase", "SwitchStatement"} \cup LoopTypes

\* The anchor of the path is its last statement.
AnchoredAtLast(path) ==
    /\ path.statements # <<>>
    /\ path.endNode = path.statements[Len(path.statements)]

\* C26: every diagnostic is attached to the anchor of an enumerated path, and
\* every anchor is a statement, case or clause of the executor body: the
\* return or throw of a path that is marked as returned or thrown, otherwise
\* the last statement of the path or the if, switch case, switch or loop that
\* produced a path without statements of its own; the body itself is the
\* anchor only when it is not a block and so is the one statement of its path.
C26_AnchorInsideBody ==
    Analysed =>
       LET inside == Range(StatementsBelow(TheBody))
       IN  /\ \A i \in 1..Len(paths) :
                 /\ paths[i].endNode \in inside
                 /\ paths[i].terminated # "no" =>
                       /\ AnchoredAtLast(paths[i])
                       /\ paths[i].endNode.type \in TerminalTypes
                 /\ paths[i].terminated = "no" =>
                       \/ AnchoredAtLast(paths[i])
                       \/ paths[i].endNode.type \in SyntheticAnchorTypes
                 /\ paths[i].endNode = TheBody =>
                       /\ TheBody.type # "BlockStatement"
                       /\ paths[i].statements = <<TheBody>>
           /\ \A k \in 1..Len(reports) :
                 /\ reports[k].node \in inside
                 /\ \E i \in 1..Len(paths) : reports[k].node = paths[i].endNode

\* A body was analysed that gives a diagnostic on a return, one on a plain
\* statement or one on the construct of a path without statements.
C26_Witness ==
    /\ Analysed
    /\ TheBody.type = "BlockStatement"
    /\ Len(reports) >= 2
    /\ \E k \in 1..Len(reports) : reports[k].node.type \in SyntheticAnchorTypes
    /\ \E k \in 1..Len(reports) : reports[k].node.type \in TerminalTypes

\* promise-constructor-exactly-one-callback reached its path analysis.
ShippedAnalysed ==
    /\ pc = "shipped"
    /\ isPromiseConstructor(node)
    /\ getExecutorFunction(node) # <<>>
    /\ Len(node.arguments[1].params) >= 2
    /\ \A i \in 1..2 : "name" \in DOMAIN node.arguments[1].params[i]

\* C27: in promise-constructor-exactly-one-callback no path of a block body
\* holds a whole if, try, switch or loop statement, so that no call is counted
\* both on the path of its branch and on a path that holds the construct;
\* if (c) { resolve(); } else { reject(); } gives two paths of count 1 and no
\* diagnostic.
C27_ShippedCountsOnce ==
    /\ (ShippedAnalysed /\ TheBody.type = "BlockStatement") =>
          \A i \in 1..Len(paths) : \A j \in 1..Len(paths[i].statements) :
             paths[i].statements[j].type \notin CompoundTypes
    /\ (ShippedAnalysed /\ TheBody = IfElseBody /\ SentinelNames = {"resolve", "reject"}) =>
          /\ Counts = <<1, 1>>
          /\ reports = <<>>

\* switch (s) { case 1: resolve(); break; default: resolve(); break; } resolve();
BreakSwitchBody ==
    Body(<<SwitchStatement(<<1>>,
              <<SwitchCase(<<1, 1>>, <<Literal>>, LeafList(<<"resolve", "break">>, <<1, 1>>, 1)),
                SwitchCase(<<1, 2>>, <<>>, LeafList(<<"resolve", "break">>, <<1, 2>>, 1))>>),
           Leaf("resolve", <<2>>)>>)

RECURSIVE CompletesFrom(_, _)
\* Control that enters the switch sw at case j can leave it at its end: the
\* case has no return or throw, and it has a break, is the last case, or falls
\* into a case that can.
CompletesFrom(sw, j) ==
    LET body == sw.cases[j].consequent
    IN  /\ \A k \in 1..Len(body) : body[k].type \notin TerminalTypes
        /\ \/ \E k \in 1..Len(body) : body[k].type = "BreakStatement"
           \/ j = Len(sw.cases)
           \/ CompletesFrom(sw, j + 1)

\* Some way through the switch reaches the statement after it.
CanCompleteNormally(sw) ==
    \/ \A j \in 1..Len(sw.cases) : sw.cases[j].test # <<>>
    \/ \E j \in 1..Len(sw.cases) : CompletesFrom(sw, j)

\* C28: in promise-constructor-exactly-one-callback, when the body is plain
\* statements, a switch and statements after it, and some case can complete
\* normally (by a break or by reaching the end of the switch), the first
\* statement after the switch is on some enumerated path; for
\* switch (s) { case 1: resolve(); break; default: resolve(); break; } resolve();
\* some path has count 2 and multipleCallbacks is reported.
C28_ShippedSwitchContinues ==
    /\ (ShippedAnalysed /\ FirstCompoundIs("SwitchStatement") /\ Following # <<>>
                        /\ CanCompleteNormally(Stmts[FirstCompoundAt])) =>
          \E i \in 1..Len(paths) : OnPath(Following[1], paths[i])
    /\ (ShippedAnalysed /\ TheBody = BreakSwitchBody
                        /\ SentinelNames = {"resolve", "reject"}) =>
          /\ \E i \in 1..Len(paths) : Count(paths[i]) = 2
          /\ \E k \in 1..Len(reports) : reports[k].messageId = "multipleCallbacks"

\* The first or the second definition of promise-constructor-callbacks reached
\* its analysis of the body.
EitherAnalysed ==
    /\ pc \in {"first", "callbacks"}
    /\ IsPromiseWithExecutor
    /\ Len(node.arguments[1].params) >= 2
    /\ \A i \in 1..2 : node.arguments[1].params[i].type = "Identifier"

\* Some statement of the body up to its first top-level return or throw (the
\* body itself when it is not a block) holds a call of resolve or reject.
LexicallyCalls ==
    IF TheBody.type = "BlockStatement"
    THEN SentinelCalls(Reached(Stmts)) >= 1
    ELSE SentinelCalls(<<TheBody>>) >= 1

RECURSIVE Before(_, _)
\* The position a comes before the position b in the source.
Before(a, b) ==
    IF a = <<>> THEN b # <<>>
    ELSE IF b = <<>> THEN FALSE
    ELSE IF Head(a) # Head(b) THEN Head(a) < Head(b)
    ELSE Before(Tail(a), Tail(b))

\* C30: every path of a block body starts with the plain statements that
\* stand before the first construct of the body; the statements of a path are
\* statements of the body or of its nested branches, each at most once and in
\* source order, and none of them is an if, try, switch, loop or block.
C30_PrefixAndOrder ==
    (Analysed /\ TheBody.type = "BlockStatement") =>
       LET inside == Range(StatementsBelow(TheBody))
       IN  \A i \in 1..Len(paths) :
              LET ss == paths[i].statements
              IN  /\ \A j \in 1..Len(ss) :
                        /\ ss[j] \in inside
                        /\ ss[j].type \notin CompoundTypes \cup {"BlockStatement"}
                  /\ \A j \in 1..(Len(ss) - 1) : Before(ss[j].range, ss[j + 1].range)
                  /\ \A j, k \in 1..Len(ss) : ss[j] = ss[k] => j = k
                  /\ (\E t \in CompoundTypes : FirstCompoundIs(t)) =>
                        /\ Len(ss) >= Len(Prefix)
                        /\ SubSeq(ss, 1, Len(Prefix)) = Prefix

\* A body with a plain statement, a construct and a statement after it was
\* analysed: some path holds the first statement, a statement of a branch of
\* the construct and the statement after it.
C30_Witness ==
    /\ Analysed
    /\ \E t \in CompoundTypes : FirstCompoundIs(t)
    /\ Len(Prefix) = 1
    /\ Len(Following) = 1
    /\ \E i \in 1..Len(paths) :
          /\ Len(paths[i].statements) >= 3
          /\ paths[i].statements[1] = Prefix[1]
          /\ paths[i].statements[Len(paths[i].statements)] = Following[1]

====
